---- MODULE Spec2Model ----
(***************************************************************************)
(* Model of telegraf's output buffering: the channel-backed Buffer         *)
(* (internal/models buffer) and RunningOutput (running_output.go).         *)
(*                                                                         *)
(* Three specifications share the module:                                  *)
(*   SpecBuf   one Buffer, Add and Batch called one at a time              *)
(*   Spec      one RunningOutput, AddMetric and Write called one at a time *)
(*   SpecConc  one RunningOutput, AddMetric from several goroutines and a  *)
(*             concurrent Write, interleaved at channel-operation steps    *)
(***************************************************************************)
EXTENDS Integers, Sequences, FiniteSets, Bags, TLC

VARIABLES
    b,                  \* a free-standing *Buffer (SpecBuf)
    Config,             \* RunningOutput.Config.Filter
    MetricBatchSize,    \* RunningOutput.MetricBatchSize
    MetricBufferLimit,  \* RunningOutput.MetricBufferLimit
    metrics,            \* RunningOutput.metrics
    failMetrics,        \* RunningOutput.failMetrics
    produced,           \* number of metrics the collectors have emitted so far
    pre,                \* the buffers as they were when the last call started
    lastOp,             \* the last call and its arguments
    ret,                \* what the last call returned
    sinkCalls,          \* Output.Write invocations made by the last call, in order
    batched,            \* number of metrics Batch has handed out of b so far
    accepted,           \* Spec: the metrics the filter has let through so far, as buffered
    delivered,          \* Spec: the bag of metrics the sink has accepted so far
    procs,              \* SpecConc: each goroutine's position and locals
    evictions,          \* SpecConc: per buffer, the receives done by Add's default branch
    lastEviction,       \* SpecConc: the buffer's fill at the latest such receive
    views               \* SpecConc: per goroutine in Batch, what an atomic Batch would
                        \* have returned at each instant of the call so far

vars == <<b, Config, MetricBatchSize, MetricBufferLimit, metrics, failMetrics,
          produced, pre, lastOp, ret, sinkCalls, batched, accepted, delivered,
          procs, evictions, lastEviction, views>>

concVars == <<procs, evictions, lastEviction, views>>

roVars == <<Config, MetricBatchSize, MetricBufferLimit, metrics, failMetrics>>

acctVars == <<accepted, delivered>>

(***************************************************************************)
(* Bounds of the model.                                                    *)
(***************************************************************************)
MaxCap == 3

MaxAdd == 4

MaxMetrics == 5

MaxBatchSize == 2

MaxBufferLimit == 4

(***************************************************************************)
(* Program constants.                                                      *)
(***************************************************************************)
DEFAULT_METRIC_BATCH_SIZE == 1000

DEFAULT_METRIC_BUFFER_LIMIT == 10000

(***************************************************************************)
(* telegraf.Metric: name, tags, fields, time.  The i-th metric emitted is  *)
(* distinct from every other; its tag mapping (a set of key/value pairs)   *)
(* cycles through three shapes.                                            *)
(***************************************************************************)
TagsOf(i) ==
    IF i % 3 = 1 THEN {<<"host", "a">>, <<"region", "b">>}
    ELSE IF i % 3 = 2 THEN {<<"region", "b">>}
    ELSE {}

NewMetric(name, tags, fields, t) ==
    [name |-> name, tags |-> tags, fields |-> fields, time |-> t]

Metric(i) == NewMetric(i, TagsOf(i), i, i)

\* metrics i+1 .. i+n, in emission order
RECURSIVE Emit(_, _)
Emit(i, n) == IF n = 0 THEN <<>> ELSE <<Metric(i + 1)>> \o Emit(i + 1, n - 1)

nil == <<>>

\* the error value the sink returns from its k-th invocation within a call
SinkError(k) == <<"write failed", k>>

(***************************************************************************)
(* Buffer, executed without interference (one call at a time).             *)
(***************************************************************************)
NewBuffer(size) == [buf |-> <<>>, drops |-> 0, size |-> size]

IsEmpty(q) == Len(q.buf) = 0

BufLen(q) == Len(q.buf)

min(x, y) == IF y < x THEN y ELSE x

\* one iteration of Add's loop: the select, and its default branch
AddOneKeepOldest(q, m) ==
    IF Len(q.buf) < q.size
    THEN [q EXCEPT !.buf = Append(@, m)]
    ELSE [q EXCEPT !.drops = @ + 1]

AddOneNoCount(q, m) ==
    IF Len(q.buf) < q.size
    THEN [q EXCEPT !.buf = Append(@, m)]
    ELSE [q EXCEPT !.buf = Append(Tail(@), m)]

AddOneCountsAlways(q, m) ==
    IF Len(q.buf) < q.size
    THEN [q EXCEPT !.drops = @ + 1, !.buf = Append(@, m)]
    ELSE [q EXCEPT !.drops = @ + 1, !.buf = Append(Tail(@), m)]

AddOne(q, m) ==
    IF Len(q.buf) < q.size
    THEN [q EXCEPT !.buf = Append(@, m)]
    ELSE [q EXCEPT !.drops = @ + 1, !.buf = Append(Tail(@), m)]

RECURSIVE Add(_, _)
Add(q, ms) ==
    IF ms = <<>> THEN q ELSE Add(AddOne(q, Head(ms)), Tail(ms))

BatchLoopCountingDrops(q, out, i, n) ==
    [out |-> SubSeq(q.buf, 1, n - i),
     q |-> [q EXCEPT !.buf = SubSeq(@, n - i + 1, Len(@)), !.drops = @ + (n - i)]]

\* Batch's receive loop: out[i] = <-b.buf for i in [i, n)
RECURSIVE BatchLoop(_, _, _, _)
BatchLoop(q, out, i, n) ==
    IF i < n
    THEN BatchLoop([q EXCEPT !.buf = Tail(@)], Append(out, Head(q.buf)), i + 1, n)
    ELSE [out |-> out, q |-> q]

BatchCountOneMore(q, batchSize) == min(Len(q.buf), batchSize + 1)

BatchCount(q, batchSize) == min(Len(q.buf), batchSize)

Batch(q, batchSize) == BatchLoop(q, <<>>, 0, BatchCount(q, batchSize))

(***************************************************************************)
(* Goroutines of SpecConc: producers calling AddMetric and one flusher     *)
(* calling Write.  Idle is a goroutine between two calls.                  *)
(***************************************************************************)
Producers == {"p1", "p2"}

Flusher == "w"

Goroutines == Producers \cup {Flusher}

Idle ==
    [pc |-> "idle", buf |-> "metrics", addq |-> <<>>, tmp |-> 0, ev |-> 0,
     arg |-> 0, n |-> 0, out |-> <<>>, batch |-> <<>>, ret |-> "idle",
     bufLen |-> 0, nBatches |-> 0, i |-> 0]

NoEviction == [buf |-> "none", len |-> 0, size |-> 0]

InitGoroutines ==
    /\ procs = [g \in Goroutines |-> Idle]
    /\ evictions = [name \in {"metrics", "failMetrics"} |-> 0]
    /\ lastEviction = NoEviction
    /\ views = [g \in Goroutines |-> {}]

(***************************************************************************)
(* SpecBuf: a Buffer of capacity C, Add and Batch called one at a time.    *)
(***************************************************************************)
Snapshot == [b |-> b, metrics |-> metrics, failMetrics |-> failMetrics]

NoCall == [name |-> "none"]

InitRO(batchSize, bufferLimit, filter) ==
    /\ Config = filter
    /\ MetricBatchSize = batchSize
    /\ MetricBufferLimit = bufferLimit
    /\ metrics = NewBuffer(batchSize)
    /\ failMetrics = NewBuffer(bufferLimit)

NoFilter == [IsActive |-> FALSE, TagExclude |-> {}, TagInclude |-> {}]

InitBuf ==
    /\ \E size \in 1..MaxCap : b = NewBuffer(size)
    /\ InitRO(1, 1, NoFilter)
    /\ produced = 0
    /\ pre = Snapshot
    /\ lastOp = NoCall
    /\ ret = nil
    /\ sinkCalls = <<>>
    /\ batched = 0
    /\ accepted = {}
    /\ delivered = EmptyBag
    /\ InitGoroutines

BufferAdd(n) ==
    /\ produced + n <= MaxMetrics
    /\ b' = Add(b, Emit(produced, n))
    /\ produced' = produced + n
    /\ pre' = Snapshot
    /\ lastOp' = [name |-> "Add", metrics |-> Emit(produced, n)]
    /\ ret' = nil
    /\ UNCHANGED <<roVars, sinkCalls, batched, acctVars, concVars>>

BufferBatch(batchSize) ==
    /\ b' = Batch(b, batchSize).q
    /\ ret' = Batch(b, batchSize).out
    /\ pre' = Snapshot
    /\ lastOp' = [name |-> "Batch", batchSize |-> batchSize]
    /\ batched' = batched + Len(Batch(b, batchSize).out)
    /\ UNCHANGED <<roVars, produced, sinkCalls, acctVars, concVars>>

BufferLen ==
    /\ ret' = BufLen(b)
    /\ pre' = Snapshot
    /\ lastOp' = [name |-> "Len"]
    /\ UNCHANGED <<b, batched, roVars, produced, sinkCalls, acctVars, concVars>>

BufferIsEmpty ==
    /\ ret' = IsEmpty(b)
    /\ pre' = Snapshot
    /\ lastOp' = [name |-> "IsEmpty"]
    /\ UNCHANGED <<b, batched, roVars, produced, sinkCalls, acctVars, concVars>>

NextBuf ==
    \/ \E n \in 0..MaxAdd : BufferAdd(n)
    \/ \E batchSize \in 0..(MaxCap + 1) : BufferBatch(batchSize)
    \/ BufferLen
    \/ BufferIsEmpty

SpecBuf == InitBuf /\ [][NextBuf]_vars

(***************************************************************************)
(* Filter (an external collaborator of RunningOutput).  ShouldMetricPass   *)
(* is a black box: its verdict is an input of AddMetric.  FilterTags keeps *)
(* the tags TagInclude names (all, when it is empty) and removes the tags  *)
(* TagExclude names.                                                       *)
(***************************************************************************)
FilterTags(filter, tags) ==
    {kv \in tags : /\ (filter.TagInclude = {} \/ kv[1] \in filter.TagInclude)
                   /\ kv[1] \notin filter.TagExclude}

Filters ==
    { NoFilter,
      [IsActive |-> TRUE, TagExclude |-> {}, TagInclude |-> {}],
      [IsActive |-> FALSE, TagExclude |-> {"host"}, TagInclude |-> {}],
      [IsActive |-> FALSE, TagExclude |-> {}, TagInclude |-> {"host"}] }

(***************************************************************************)
(* RunningOutput, one call at a time.                                      *)
(***************************************************************************)
\* NewRunningOutput's defaulting of its batchSize and bufferLimit arguments
BufferLimitOf(bufferLimit) ==
    IF bufferLimit = 0 THEN DEFAULT_METRIC_BUFFER_LIMIT ELSE bufferLimit

BatchSizeOf(batchSize) ==
    IF batchSize = 0 THEN DEFAULT_METRIC_BATCH_SIZE ELSE batchSize

NewRunningOutput(conf, batchSize, bufferLimit) ==
    InitRO(BatchSizeOf(batchSize), BufferLimitOf(bufferLimit), conf)

writeEmptyToo(batch, k, failing) ==
    [called |-> TRUE, err |-> IF failing THEN SinkError(k) ELSE nil]

\* ro.write: failing tells whether the sink fails this invocation, the k-th of
\* the call; an empty batch is not handed to the sink at all
write(batch, k, failing) ==
    IF Len(batch) = 0
    THEN [called |-> FALSE, err |-> nil]
    ELSE [called |-> TRUE, err |-> IF failing THEN SinkError(k) ELSE nil]

RequeueForgotten(fm, batch, err) == fm

\* if err != nil { ro.failMetrics.Add(batch...) }
Requeue(fm, batch, err) == IF err # nil THEN Add(fm, batch) ELSE fm

\* err := ro.write(batch); if err != nil { ro.failMetrics.Add(batch...) }
\* The log entry of a sink invocation records the batch, the buffer it was
\* extracted from, the sink's answer, and the fail buffer before and after
\* the answer was handled.
Send(fm, batch, from, calls, errs) ==
    LET k == Len(calls) + 1
        w == write(batch, k, errs[k])
        fm2 == Requeue(fm, batch, w.err)
    IN  [err |-> w.err,
         failMetrics |-> fm2,
         calls |-> IF w.called
                   THEN Append(calls, [metrics |-> batch, from |-> from, err |-> w.err,
                                       before |-> fm, after |-> fm2])
                   ELSE calls]

RECURSIVE SeqToBag(_)
SeqToBag(s) ==
    IF s = <<>> THEN EmptyBag ELSE SetToBag({Head(s)}) (+) SeqToBag(Tail(s))

\* the bag of metrics of the logged invocations that the sink accepted
RECURSIVE Delivered(_)
Delivered(calls) ==
    IF calls = <<>> THEN EmptyBag
    ELSE (IF Head(calls).err = nil THEN SeqToBag(Head(calls).metrics) ELSE EmptyBag)
             (+) Delivered(Tail(calls))

FilteredMetricUntouched(filter, metric) == metric

\* lines 70-81 of AddMetric: the tag rewrite
FilteredMetric(filter, metric) ==
    IF filter.TagExclude # {} \/ filter.TagInclude # {}
    THEN NewMetric(metric.name, FilterTags(filter, metric.tags),
                   metric.fields, metric.time)
    ELSE metric

BatchReadyWhenOver(q, batchSize) == BufLen(q) > batchSize

DiscardedWhenPassing(filter, pass) == filter.IsActive /\ pass

\* lines 64-68 of AddMetric: the early return, given ShouldMetricPass's verdict
Discarded(filter, pass) == filter.IsActive /\ ~pass

\* if ro.metrics.Len() == ro.MetricBatchSize
BatchReady(q, batchSize) == BufLen(q) = batchSize

AddMetric(pass, errs) ==
    /\ produced < MaxMetrics
    /\ produced' = produced + 1
    /\ pre' = Snapshot
    /\ ret' = nil
    /\ LET metric == Metric(produced + 1)
           rejected == Config.IsActive /\ ~pass
           added == Add(metrics, <<FilteredMetric(Config, metric)>>)
           r == Batch(added, MetricBatchSize)
           s == Send(failMetrics, r.out, "metrics", <<>>, errs)
       IN  /\ lastOp' = [name |-> "AddMetric", metric |-> metric, rejected |-> rejected]
           /\ accepted' = IF rejected THEN accepted
                          ELSE accepted \cup {FilteredMetric(Config, metric)}
           /\ IF Discarded(Config, pass)
              THEN /\ sinkCalls' = <<>>
                   /\ UNCHANGED <<metrics, failMetrics>>
              ELSE IF BatchReady(added, MetricBatchSize)
              THEN /\ metrics' = r.q
                   /\ failMetrics' = s.failMetrics
                   /\ sinkCalls' = s.calls
              ELSE /\ metrics' = added
                   /\ sinkCalls' = <<>>
                   /\ UNCHANGED failMetrics
    /\ delivered' = delivered (+) Delivered(sinkCalls')
    /\ UNCHANGED <<b, batched, Config, MetricBatchSize, MetricBufferLimit, concVars>>

NBatchesNoRemainder(bufLen, batchSize) == bufLen \div batchSize

\* nBatches := bufLen/ro.MetricBatchSize + 1
NBatches(bufLen, batchSize) == bufLen \div batchSize + 1

DrainBatchSizeAlwaysFull(i, nBatches, bufLen, batchSize) == batchSize

\* the batch size of iteration i of the drain loop
DrainBatchSize(i, nBatches, bufLen, batchSize) ==
    IF i = nBatches - 1 THEN bufLen % batchSize ELSE batchSize

\* the loop of Write over the fail buffer, from iteration i on
RECURSIVE DrainLoop(_, _, _, _, _, _)
DrainLoop(fm, calls, i, nBatches, bufLen, errs) ==
    IF i < nBatches
    THEN LET r == Batch(fm, DrainBatchSize(i, nBatches, bufLen, MetricBatchSize))
             s == Send(r.q, r.out, "failMetrics", calls, errs)
         IN  DrainLoop(s.failMetrics, s.calls, i + 1, nBatches, bufLen, errs)
    ELSE [failMetrics |-> fm, calls |-> calls]

\* lines 95-113 of Write
Drain(fm, errs) ==
    IF ~IsEmpty(fm)
    THEN DrainLoop(fm, <<>>, 0, NBatches(BufLen(fm), MetricBatchSize), BufLen(fm), errs)
    ELSE [failMetrics |-> fm, calls |-> <<>>]

WriteResultAlwaysNil(err) == nil

\* lines 117-121 of Write: what it returns, given the error of the final send
WriteResult(err) == IF err # nil THEN err ELSE nil

Write(errs) ==
    /\ pre' = Snapshot
    /\ lastOp' = [name |-> "Write"]
    /\ LET d == Drain(failMetrics, errs)
           r == Batch(metrics, MetricBatchSize)
           s == Send(d.failMetrics, r.out, "metrics", d.calls, errs)
       IN  /\ metrics' = r.q
           /\ failMetrics' = s.failMetrics
           /\ sinkCalls' = s.calls
           /\ ret' = WriteResult(s.err)
    /\ delivered' = delivered (+) Delivered(sinkCalls')
    /\ UNCHANGED <<b, batched, produced, accepted, Config, MetricBatchSize,
                   MetricBufferLimit, concVars>>

\* an upper bound on the sink invocations one call can make
MaxSinkCalls ==
    (BufLen(failMetrics) + MetricBatchSize - 1) \div MetricBatchSize + 1

Init ==
    /\ b = NewBuffer(1)
    /\ \E conf \in Filters, batchSize \in 0..MaxBatchSize, bufferLimit \in 0..MaxBufferLimit :
          NewRunningOutput(conf, batchSize, bufferLimit)
    /\ produced = 0
    /\ pre = Snapshot
    /\ lastOp = NoCall
    /\ ret = nil
    /\ sinkCalls = <<>>
    /\ batched = 0
    /\ accepted = {}
    /\ delivered = EmptyBag
    /\ InitGoroutines

Next ==
    \/ \E pass \in BOOLEAN, errs \in [1..1 -> BOOLEAN] : AddMetric(pass, errs)
    \/ \E errs \in [1..MaxSinkCalls -> BOOLEAN] : Write(errs)

Spec == Init /\ [][Next]_vars

(***************************************************************************)
(* SpecConc: the same code run by several goroutines.  A step is one       *)
(* channel operation (select-send, receive, send, len), one half of the    *)
(* unsynchronised b.drops++ (load, store), or one sink invocation; code    *)
(* that touches only locals is folded into the step before it.  A receive  *)
(* from an empty channel and a send to a full one are not enabled: the     *)
(* goroutine waits.                                                        *)
(***************************************************************************)
MaxConcMetrics == 3

MaxConcBatchSize == 2

MaxConcBufferLimit == 2

Buf(name) == IF name = "metrics" THEN metrics ELSE failMetrics

SetBuf(name, q) ==
    /\ metrics' = IF name = "metrics" THEN q ELSE metrics
    /\ failMetrics' = IF name = "failMetrics" THEN q ELSE failMetrics

At(g, label) == procs[g].pc = label

Become(g, l) == procs' = [procs EXCEPT ![g] = l]

\* continue at label; a call that returns leaves no locals behind
Goto(l, label) == IF label = "idle" THEN Idle ELSE [l EXCEPT !.pc = label]

\* b.Add(ms...) on the named buffer, continuing at label when it returns
CallAdd(l, name, ms, label) ==
    IF ms = <<>>
    THEN Goto(l, label)
    ELSE [l EXCEPT !.pc = "add_select", !.buf = name, !.addq = ms, !.ev = 0, !.ret = label]

\* b.Batch(batchSize) on the named buffer, continuing at label when it returns
CallBatch(l, name, batchSize, label) ==
    [l EXCEPT !.pc = "batch_len", !.buf = name, !.arg = batchSize, !.ret = label]

\* metrics[i] is in the channel: next iteration of Add's loop, or return
Inserted(l) ==
    IF Tail(l.addq) = <<>>
    THEN Goto([l EXCEPT !.addq = <<>>, !.ev = 0], l.ret)
    ELSE [l EXCEPT !.pc = "add_select", !.addq = Tail(@), !.ev = 0]

ghostVars == <<evictions, lastEviction>>

seqVars == <<b, batched, pre, lastOp, ret, sinkCalls, accepted, delivered>>

confVars == <<Config, MetricBatchSize, MetricBufferLimit>>

\* a Batch call that has not received anything yet: the instants at which an
\* atomic Batch could still have taken place
InBatchWindow(l) == l.pc = "batch_len" \/ (l.pc = "batch_recv" /\ l.out = <<>>)

\* a Batch call in its receive loop, or returned with its result not yet sent
HoldsBatch(l) == l.pc \in {"batch_recv", "am_write", "w_send", "w_flush"}

\* bookkeeping of views, done with every step of any goroutine: while a Batch
\* call has received nothing, what an atomic Batch would return now is added;
\* afterwards only the views that still agree with what was received are kept
ObserveBatches ==
    views' = [g \in Goroutines |->
                LET l == procs'[g]
                    q == IF l.buf = "metrics" THEN metrics' ELSE failMetrics'
                    old == IF InBatchWindow(procs[g]) \/ HoldsBatch(procs[g])
                           THEN views[g] ELSE {}
                IN  IF l.pc = "batch_len"
                    THEN old \cup {Batch(q, l.arg).out}
                    ELSE IF l.pc = "batch_recv" /\ l.out = <<>>
                    THEN {v \in old \cup {Batch(q, l.arg).out} : Len(v) = l.n}
                    ELSE IF l.pc = "batch_recv"
                    THEN {v \in old : Len(v) = l.n /\ SubSeq(v, 1, Len(l.out)) = l.out}
                    ELSE IF HoldsBatch(l)
                    THEN {v \in old : v = l.batch}
                    ELSE {}]

\* AddMetric, lines 64-83: the filter, the tag rewrite, the call of Add
AMStart(g, pass) ==
    /\ g \in Producers
    /\ At(g, "idle")
    /\ produced < MaxConcMetrics
    /\ produced' = produced + 1
    /\ IF Discarded(Config, pass)
       THEN UNCHANGED procs
       ELSE Become(g, CallAdd(procs[g], "metrics",
                              <<FilteredMetric(Config, Metric(produced + 1))>>, "am_len"))
    /\ UNCHANGED <<metrics, failMetrics, confVars, ghostVars, seqVars>>
    /\ ObserveBatches

\* Add: select { case b.buf <- metrics[i]: ... default: ... }
AddSelect(g) ==
    /\ At(g, "add_select")
    /\ LET l == procs[g]
           q == Buf(l.buf)
       IN  IF Len(q.buf) < q.size
           THEN /\ SetBuf(l.buf, [q EXCEPT !.buf = Append(@, Head(l.addq))])
                /\ Become(g, Inserted(l))
           ELSE /\ UNCHANGED <<metrics, failMetrics>>
                /\ Become(g, [l EXCEPT !.pc = "add_drops_load"])
    /\ UNCHANGED <<produced, confVars, ghostVars, seqVars>>
    /\ ObserveBatches

\* Add: b.drops++, the load
AddDropsLoad(g) ==
    /\ At(g, "add_drops_load")
    /\ Become(g, [procs[g] EXCEPT !.pc = "add_drops_store", !.tmp = Buf(procs[g].buf).drops])
    /\ UNCHANGED <<metrics, failMetrics, produced, confVars, ghostVars, seqVars>>
    /\ ObserveBatches

\* Add: b.drops++, the store
AddDropsStore(g) ==
    /\ At(g, "add_drops_store")
    /\ LET l == procs[g]
       IN  /\ SetBuf(l.buf, [Buf(l.buf) EXCEPT !.drops = l.tmp + 1])
           /\ Become(g, [l EXCEPT !.pc = "add_evict", !.tmp = 0])
    /\ UNCHANGED <<produced, confVars, ghostVars, seqVars>>
    /\ ObserveBatches

\* Add: <-b.buf
AddEvict(g) ==
    /\ At(g, "add_evict")
    /\ LET l == procs[g]
           q == Buf(l.buf)
       IN  /\ Len(q.buf) > 0
           /\ SetBuf(l.buf, [q EXCEPT !.buf = Tail(@)])
           /\ Become(g, [l EXCEPT !.pc = "add_send", !.ev = @ + 1])
           /\ evictions' = [evictions EXCEPT ![l.buf] = @ + 1]
           /\ lastEviction' = [buf |-> l.buf, len |-> Len(q.buf), size |-> q.size]
    /\ UNCHANGED <<produced, confVars, seqVars>>
    /\ ObserveBatches

\* Add: b.buf <- metrics[i]
AddSend(g) ==
    /\ At(g, "add_send")
    /\ LET l == procs[g]
           q == Buf(l.buf)
       IN  /\ Len(q.buf) < q.size
           /\ SetBuf(l.buf, [q EXCEPT !.buf = Append(@, Head(l.addq))])
           /\ Become(g, Inserted(l))
    /\ UNCHANGED <<produced, confVars, ghostVars, seqVars>>
    /\ ObserveBatches

\* Batch: n := min(len(b.buf), batchSize); out := make(..., n)
BatchLen(g) ==
    /\ At(g, "batch_len")
    /\ LET l == procs[g]
           n == BatchCount(Buf(l.buf), l.arg)
       IN  Become(g, IF n = 0
                     THEN Goto([l EXCEPT !.batch = <<>>, !.arg = 0], l.ret)
                     ELSE [l EXCEPT !.pc = "batch_recv", !.n = n, !.out = <<>>])
    /\ UNCHANGED <<metrics, failMetrics, produced, confVars, ghostVars, seqVars>>
    /\ ObserveBatches

\* Batch: out[i] = <-b.buf
BatchRecv(g) ==
    /\ At(g, "batch_recv")
    /\ LET l == procs[g]
           q == Buf(l.buf)
           out == Append(l.out, Head(q.buf))
       IN  /\ Len(q.buf) > 0
           /\ SetBuf(l.buf, [q EXCEPT !.buf = Tail(@)])
           /\ Become(g, IF Len(out) = l.n
                        THEN Goto([l EXCEPT !.batch = out, !.out = <<>>, !.n = 0, !.arg = 0],
                                  l.ret)
                        ELSE [l EXCEPT !.out = out])
    /\ UNCHANGED <<produced, confVars, ghostVars, seqVars>>
    /\ ObserveBatches

\* AddMetric, line 84: if ro.metrics.Len() == ro.MetricBatchSize
AMLen(g) ==
    /\ At(g, "am_len")
    /\ Become(g, IF BatchReady(metrics, MetricBatchSize)
                 THEN CallBatch(procs[g], "metrics", MetricBatchSize, "am_write")
                 ELSE Idle)
    /\ UNCHANGED <<metrics, failMetrics, produced, confVars, ghostVars, seqVars>>
    /\ ObserveBatches

\* err := ro.write(batch); if err != nil { ro.failMetrics.Add(batch...) }
SendThen(g, failing, label) ==
    LET l == procs[g]
        w == write(l.batch, 1, failing)
    IN  Become(g, IF w.err # nil
                  THEN CallAdd([l EXCEPT !.batch = <<>>], "failMetrics", l.batch, label)
                  ELSE Goto([l EXCEPT !.batch = <<>>], label))

\* AddMetric, lines 86-89
AMWrite(g, failing) ==
    /\ At(g, "am_write")
    /\ SendThen(g, failing, "idle")
    /\ UNCHANGED <<metrics, failMetrics, produced, confVars, ghostVars, seqVars>>
    /\ ObserveBatches

\* Write, line 95: if !ro.failMetrics.IsEmpty()
WStart(g) ==
    /\ g = Flusher
    /\ At(g, "idle")
    /\ Become(g, IF ~IsEmpty(failMetrics)
                 THEN [procs[g] EXCEPT !.pc = "w_len"]
                 ELSE CallBatch(procs[g], "metrics", MetricBatchSize, "w_flush"))
    /\ UNCHANGED <<metrics, failMetrics, produced, confVars, ghostVars, seqVars>>
    /\ ObserveBatches

\* the head of Write's loop, iteration l.i: the next Batch of the fail buffer,
\* or past the loop the Batch of the primary buffer (line 115)
DrainStep(l) ==
    IF l.i < l.nBatches
    THEN CallBatch(l, "failMetrics",
                   DrainBatchSize(l.i, l.nBatches, l.bufLen, MetricBatchSize), "w_send")
    ELSE CallBatch([l EXCEPT !.i = 0, !.nBatches = 0, !.bufLen = 0],
                   "metrics", MetricBatchSize, "w_flush")

\* Write, lines 96-99: bufLen := ro.failMetrics.Len(); nBatches := ...
WLen(g) ==
    /\ At(g, "w_len")
    /\ LET bufLen == BufLen(failMetrics)
       IN  Become(g, DrainStep([procs[g] EXCEPT
                                   !.bufLen = bufLen,
                                   !.nBatches = NBatches(bufLen, MetricBatchSize),
                                   !.i = 0]))
    /\ UNCHANGED <<metrics, failMetrics, produced, confVars, ghostVars, seqVars>>
    /\ ObserveBatches

\* Write, lines 108-111, and i++ once the re-queue is done
WSend(g, failing) ==
    /\ At(g, "w_send")
    /\ SendThen(g, failing, "w_next")
    /\ UNCHANGED <<metrics, failMetrics, produced, confVars, ghostVars, seqVars>>
    /\ ObserveBatches

WNext(g) ==
    /\ At(g, "w_next")
    /\ Become(g, DrainStep([procs[g] EXCEPT !.i = @ + 1]))
    /\ UNCHANGED <<metrics, failMetrics, produced, confVars, ghostVars, seqVars>>
    /\ ObserveBatches

\* Write, lines 116-121
WFlush(g, failing) ==
    /\ At(g, "w_flush")
    /\ SendThen(g, failing, "idle")
    /\ UNCHANGED <<metrics, failMetrics, produced, confVars, ghostVars, seqVars>>
    /\ ObserveBatches

InitConc ==
    /\ b = NewBuffer(1)
    /\ \E conf \in {NoFilter, [NoFilter EXCEPT !.IsActive = TRUE]},
          batchSize \in 1..MaxConcBatchSize, bufferLimit \in 1..MaxConcBufferLimit :
          NewRunningOutput(conf, batchSize, bufferLimit)
    /\ produced = 0
    /\ pre = Snapshot
    /\ lastOp = NoCall
    /\ ret = nil
    /\ sinkCalls = <<>>
    /\ batched = 0
    /\ accepted = {}
    /\ delivered = EmptyBag
    /\ InitGoroutines

NextConc ==
    \E g \in Goroutines :
        \/ \E pass \in BOOLEAN : AMStart(g, pass)
        \/ AddSelect(g)
        \/ AddDropsLoad(g)
        \/ AddDropsStore(g)
        \/ AddEvict(g)
        \/ AddSend(g)
        \/ BatchLen(g)
        \/ BatchRecv(g)
        \/ AMLen(g)
        \/ \E failing \in BOOLEAN : AMWrite(g, failing)
        \/ WStart(g)
        \/ WLen(g)
        \/ \E failing \in BOOLEAN : WSend(g, failing)
        \/ WNext(g)
        \/ \E failing \in BOOLEAN : WFlush(g, failing)

SpecConc == InitConc /\ [][NextConc]_vars

(***************************************************************************)
(* Vocabulary of the properties.                                           *)
(***************************************************************************)
\* the last n elements of s (all of s when it is shorter)
LastN(s, n) == IF Len(s) <= n THEN s ELSE SubSeq(s, Len(s) - n + 1, Len(s))

\* the first n elements of s (all of s when it is shorter)
FirstN(s, n) == IF Len(s) <= n THEN s ELSE SubSeq(s, 1, n)

\* s without its first n elements
DropN(s, n) == IF Len(s) <= n THEN <<>> ELSE SubSeq(s, n + 1, Len(s))

\* the metrics the sink was handed by the logged invocations, in order
RECURSIVE Offered(_)
Offered(calls) ==
    IF calls = <<>> THEN <<>> ELSE Head(calls).metrics \o Offered(Tail(calls))

AllAccepted(calls) == \A k \in 1..Len(calls) : calls[k].err = nil

AllRejected(calls) == \A k \in 1..Len(calls) : calls[k].err # nil

Called(name) == lastOp.name = name

(***************************************************************************)
(* Properties of SpecBuf.                                                  *)
(***************************************************************************)
\* C1: under any sequence of Add and Batch calls the buffer never holds more
\* than its capacity, it holds the newest surviving metrics in insertion
\* order, and Batch(k) removes and returns exactly the first min(length, k)
\* of them, oldest first.
C1_BoundedFifoBatch ==
    /\ Len(b.buf) <= b.size
    /\ b.buf = Emit(produced - Len(b.buf), Len(b.buf))
    /\ Called("Batch") =>
         LET k == lastOp.batchSize
             n == IF Len(pre.b.buf) < k THEN Len(pre.b.buf) ELSE k
         IN  /\ Len(ret) = n
             /\ ret = FirstN(pre.b.buf, n)
             /\ b.buf = DropN(pre.b.buf, n)
             /\ ret \o b.buf = pre.b.buf

\* C1 witness: after evictions, a Batch(k) returned k >= 2 metrics and left
\* some behind.
C1_Witness ==
    /\ Called("Batch")
    /\ b.drops >= 1
    /\ Len(ret) = lastOp.batchSize
    /\ Len(ret) >= 2
    /\ Len(b.buf) >= 1

\* C2: Add of one metric to a buffer that is not full appends it and leaves
\* the drop counter alone; Add of one metric to a full buffer removes the
\* head, counts one drop and appends, the length staying at capacity.  So as
\* long as Batch has removed nothing, after n insertions the buffer holds the
\* last min(n, C) metrics inserted, oldest first, and has counted max(0, n - C)
\* drops.
C2_DropOldest ==
    /\ (Called("Add") /\ Len(lastOp.metrics) = 1) =>
         IF Len(pre.b.buf) < b.size
         THEN /\ b.buf = Append(pre.b.buf, lastOp.metrics[1])
              /\ b.drops = pre.b.drops
         ELSE /\ b.buf = Append(Tail(pre.b.buf), lastOp.metrics[1])
              /\ b.drops = pre.b.drops + 1
              /\ Len(b.buf) = b.size
    /\ batched = 0 =>
         LET kept == IF produced < b.size THEN produced ELSE b.size
         IN  /\ b.buf = Emit(produced - kept, kept)
             /\ b.drops = produced - kept

\* C2 witness: C+1 metrics went into an empty buffer of capacity C, the last
\* one by an Add of a single metric to the full buffer: one drop.
C2_Witness ==
    /\ Called("Add")
    /\ Len(lastOp.metrics) = 1
    /\ batched = 0
    /\ produced = b.size + 1
    /\ Len(pre.b.buf) = b.size
    /\ b.drops = 1

\* C14: reads and extraction are not drops: Batch leaves the drop counter
\* alone (and on an empty buffer returns the empty sequence and leaves the
\* buffer empty); Len and IsEmpty change neither contents nor drop counter;
\* Len returns the number of metrics held and IsEmpty returns true iff that
\* number is 0, so repeating them on an unchanged buffer repeats the result.
C14_ReadsAndBatchNoDrops ==
    /\ Called("Batch") =>
          /\ b.drops = pre.b.drops
          /\ b.size = pre.b.size
          /\ pre.b.buf = <<>> => (ret = <<>> /\ b.buf = <<>>)
    /\ Called("Len") => (b = pre.b /\ ret = Len(b.buf))
    /\ Called("IsEmpty") => (b = pre.b /\ (ret <=> Len(b.buf) = 0))

\* C14 witness: after an eviction, a Batch took metrics out and the drop
\* counter stayed where it was.
C14_Witness ==
    /\ Called("Batch")
    /\ pre.b.drops >= 1
    /\ Len(ret) >= 1
    /\ b.drops = pre.b.drops

\* C14, a second case reached: IsEmpty answered true on a buffer emptied by
\* Batch.
C14_IsEmptyReached ==
    /\ Called("IsEmpty")
    /\ ret = TRUE
    /\ batched >= 1

(***************************************************************************)
(* Properties of Spec.                                                     *)
(***************************************************************************)
\* C3: whenever the sink rejects a batch (in AddMetric's send, in Write's
\* drain of the fail buffer or in Write's final flush), the whole batch is
\* appended to the fail buffer in batch order before the call goes on: right
\* afterwards the fail buffer ends with the last min(|batch|, L) metrics of
\* the batch, what it holds is the tail of its previous contents followed by
\* the batch, and every metric that fell out is counted as a drop.
C3_FailedBatchRequeued ==
    \A k \in 1..Len(sinkCalls) :
        LET c == sinkCalls[k]
            all == c.before.buf \o c.metrics
            keep == IF Len(c.metrics) < MetricBufferLimit
                    THEN Len(c.metrics) ELSE MetricBufferLimit
        IN  c.err # nil =>
              /\ Len(c.metrics) > 0
              /\ LastN(c.after.buf, keep) = LastN(c.metrics, keep)
              /\ c.after.buf = LastN(all, MetricBufferLimit)
              /\ c.after.drops = c.before.drops + (Len(all) - Len(c.after.buf))
              /\ (k = Len(sinkCalls) => failMetrics = c.after)

\* C3 witness: a Write in which a batch drained from the fail buffer and the
\* batch flushed from the primary buffer were both rejected.
C3_Witness ==
    /\ Called("Write")
    /\ \E j, k \in 1..Len(sinkCalls) :
          /\ j < k
          /\ sinkCalls[j].err # nil /\ sinkCalls[j].from = "failMetrics"
          /\ sinkCalls[k].err # nil /\ sinkCalls[k].from = "metrics"
          /\ failMetrics.buf = sinkCalls[j].metrics \o sinkCalls[k].metrics

\* the sink invocation of Write's final flush of the primary buffer, if any
FinalSend ==
    {k \in 1..Len(sinkCalls) : k = Len(sinkCalls) /\ sinkCalls[k].from = "metrics"}

\* C4: Write returns an error exactly when the send of the batch taken from
\* the primary buffer fails, and then it returns that send's error; errors of
\* the fail-buffer drain are not returned, so Write returns nil whenever the
\* primary buffer was empty.
C4_WriteReturnsFinalError ==
    Called("Write") =>
        /\ (ret # nil) <=> (\E k \in FinalSend : sinkCalls[k].err # nil)
        /\ \A k \in FinalSend : ret = sinkCalls[k].err
        /\ (pre.metrics.buf = <<>>) <=> (FinalSend = {})
        /\ pre.metrics.buf = <<>> => ret = nil

\* C4 witness: every resend of the drain failed, the primary buffer was
\* empty, and Write returned nil.
C4_Witness ==
    /\ Called("Write")
    /\ pre.metrics.buf = <<>>
    /\ Len(sinkCalls) >= 2
    /\ AllRejected(sinkCalls)
    /\ ret = nil

\* C5: an AddMetric the filter does not reject calls the sink exactly when
\* the insertion brings the primary buffer to the batch size N: then it makes
\* one sink call, with the N metrics accumulated since the last extraction in
\* insertion order, and leaves the primary buffer empty; otherwise it makes
\* no sink call and the primary buffer stays below N.
C5_SendExactlyWhenFull ==
    (Called("AddMetric") /\ ~lastOp.rejected) =>
        IF Len(pre.metrics.buf) + 1 = MetricBatchSize
        THEN /\ Len(sinkCalls) = 1
             /\ Len(sinkCalls[1].metrics) = MetricBatchSize
             /\ FirstN(sinkCalls[1].metrics, MetricBatchSize - 1) = pre.metrics.buf
             /\ sinkCalls[1].metrics[MetricBatchSize].name = lastOp.metric.name
             /\ metrics.buf = <<>>
        ELSE /\ sinkCalls = <<>>
             /\ Len(metrics.buf) = Len(pre.metrics.buf) + 1
             /\ metrics.buf = Append(pre.metrics.buf, metrics.buf[Len(metrics.buf)])
             /\ metrics.buf[Len(metrics.buf)].name = lastOp.metric.name
             /\ Len(metrics.buf) < MetricBatchSize

\* C5 witness (scenario A): N = 2, m1 then m2 added, the sink got [m1, m2]
\* once and accepted it.
C5_Witness ==
    /\ Called("AddMetric")
    /\ MetricBatchSize = 2
    /\ produced = 2
    /\ Len(sinkCalls) = 1
    /\ sinkCalls[1].err = nil
    /\ sinkCalls[1].metrics[1].name = 1
    /\ sinkCalls[1].metrics[2].name = 2
    /\ metrics.buf = <<>>

\* C6: a Write during which the sink accepts every batch hands the sink
\* every metric of the fail buffer, oldest first, then every metric of the
\* primary buffer, each once; both buffers are empty afterwards and no drop
\* counter has moved.
C6_WriteDeliversBacklog ==
    (Called("Write") /\ AllAccepted(sinkCalls)) =>
        /\ Offered(sinkCalls) = pre.failMetrics.buf \o pre.metrics.buf
        /\ metrics.buf = <<>>
        /\ failMetrics.buf = <<>>
        /\ metrics.drops = pre.metrics.drops
        /\ failMetrics.drops = pre.failMetrics.drops

\* C6 witness: the fail buffer held full batches and a partial remainder, the
\* primary buffer held metrics too, and all was delivered.
C6_Witness ==
    /\ Called("Write")
    /\ AllAccepted(sinkCalls)
    /\ Len(pre.failMetrics.buf) > MetricBatchSize
    /\ Len(pre.failMetrics.buf) % MetricBatchSize # 0
    /\ pre.metrics.buf # <<>>
    /\ Len(sinkCalls) >= 3

\* C7: a Write during which every sink write fails, started with F in the
\* fail buffer and P in the primary buffer where |F| + |P| <= L, ends with
\* the fail buffer holding F followed by P and its drop counter unchanged.
C7_FailedWriteKeepsOrder ==
    ( /\ Called("Write")
      /\ AllRejected(sinkCalls)
      /\ Len(pre.failMetrics.buf) + Len(pre.metrics.buf) <= MetricBufferLimit ) =>
        /\ failMetrics.buf = pre.failMetrics.buf \o pre.metrics.buf
        /\ failMetrics.drops = pre.failMetrics.drops
        /\ metrics.buf = <<>>

\* C7 witness (scenario B): N = 2, L = 4, the fail buffer held [m1, m2], the
\* primary buffer was empty, the resend failed, and the fail buffer holds
\* [m1, m2] again.
C7_Witness ==
    /\ Called("Write")
    /\ MetricBatchSize = 2
    /\ MetricBufferLimit = 4
    /\ Len(pre.failMetrics.buf) = 2
    /\ pre.failMetrics.buf[1].name = 1
    /\ pre.failMetrics.buf[2].name = 2
    /\ pre.metrics.buf = <<>>
    /\ Len(sinkCalls) = 1
    /\ sinkCalls[1].err # nil
    /\ failMetrics.buf = pre.failMetrics.buf

\* the case of C8: the fail buffer is full and AddMetric's batch of N fails
FailOverflow ==
    /\ Called("AddMetric")
    /\ Len(pre.failMetrics.buf) = MetricBufferLimit
    /\ Len(sinkCalls) = 1
    /\ sinkCalls[1].err # nil

\* C8 as stated: when the fail buffer is full and one more batch of N fails,
\* exactly the oldest L - N metrics are evicted and the drop counter grows by
\* L - N.
C8_AsStated ==
    FailOverflow =>
        /\ failMetrics.drops = pre.failMetrics.drops + (MetricBufferLimit - MetricBatchSize)
        /\ failMetrics.buf =
             DropN(pre.failMetrics.buf, MetricBufferLimit - MetricBatchSize)
                \o sinkCalls[1].metrics

\* C8 amended: when the fail buffer is full and one more batch of N fails,
\* exactly N metrics are evicted, oldest first (the oldest N of the fail
\* buffer; when N > L all L of them and the first N - L of the batch), and
\* the drop counter grows by exactly N.
C8_OverflowEvictsBatchSize ==
    FailOverflow =>
        /\ failMetrics.drops = pre.failMetrics.drops + MetricBatchSize
        /\ failMetrics.buf =
             DropN(pre.failMetrics.buf \o sinkCalls[1].metrics, MetricBatchSize)
        /\ Len(failMetrics.buf) = MetricBufferLimit

\* C8 witness: L = 3, N = 1, three failed batches filled the fail buffer and
\* a fourth failed: one eviction, not L - N = 2.
C8_Witness ==
    /\ FailOverflow
    /\ MetricBufferLimit = 3
    /\ MetricBatchSize = 1
    /\ failMetrics.drops = pre.failMetrics.drops + 1

\* C12: AddMetric of a metric that an active filter rejects changes
\* nothing: contents and drop counters of both buffers are as before and the
\* sink is not invoked.
C12_RejectedMetricNoEffect ==
    (Called("AddMetric") /\ lastOp.rejected) =>
        /\ metrics = pre.metrics
        /\ failMetrics = pre.failMetrics
        /\ sinkCalls = <<>>

\* C12 witness: a metric was rejected when the primary buffer was one short
\* of the batch size and the fail buffer held metrics.
C12_Witness ==
    /\ Called("AddMetric")
    /\ lastOp.rejected
    /\ Len(pre.metrics.buf) + 1 = MetricBatchSize
    /\ pre.failMetrics.buf # <<>>
    /\ metrics = pre.metrics

\* C13: the write protocol does no I/O for an empty batch and modifies no
\* buffer: every batch the sink receives holds at least 1 and at most N
\* metrics, an accepted send leaves the fail buffer as it was, and a Write
\* that finds both buffers empty returns nil without invoking the sink.
C13_NoEmptyBatchToSink ==
    /\ \A k \in 1..Len(sinkCalls) :
          /\ Len(sinkCalls[k].metrics) >= 1
          /\ Len(sinkCalls[k].metrics) <= MetricBatchSize
          /\ sinkCalls[k].err = nil => sinkCalls[k].after = sinkCalls[k].before
    /\ ( /\ Called("Write")
         /\ pre.metrics.buf = <<>>
         /\ pre.failMetrics.buf = <<>> ) => (sinkCalls = <<>> /\ ret = nil)

\* C13 witness: a Write whose drain ended with an empty trailing batch (the
\* fail buffer held exactly two full batches) and whose primary batch was
\* empty: the sink was invoked twice only.
C13_Witness ==
    /\ Called("Write")
    /\ pre.metrics.buf = <<>>
    /\ Len(pre.failMetrics.buf) = 2 * MetricBatchSize
    /\ Len(sinkCalls) = 2
    /\ ret = nil

\* the metric the last AddMetric put into the primary buffer: the newest
\* metric of the batch it sent, or else of the primary buffer
Buffered ==
    IF sinkCalls # <<>>
    THEN sinkCalls[1].metrics[Len(sinkCalls[1].metrics)]
    ELSE metrics.buf[Len(metrics.buf)]

\* C15: when TagInclude or TagExclude is configured, the metric AddMetric
\* buffers has the name, fields and timestamp of the metric it was given and
\* its tags filtered by the rules (TagExclude = {host}: host=a, region=b is
\* buffered with region=b only); when neither is configured the metric is
\* buffered unchanged.
C15_TagsRewritten ==
    (Called("AddMetric") /\ ~lastOp.rejected) =>
        /\ Buffered.name = lastOp.metric.name
        /\ Buffered.fields = lastOp.metric.fields
        /\ Buffered.time = lastOp.metric.time
        /\ Buffered.tags \subseteq lastOp.metric.tags
        /\ \A kv \in lastOp.metric.tags :
              kv \in Buffered.tags <=>
                 /\ (Config.TagInclude = {} \/ kv[1] \in Config.TagInclude)
                 /\ kv[1] \notin Config.TagExclude
        /\ (Config.TagInclude = {} /\ Config.TagExclude = {}) => Buffered = lastOp.metric
        /\ ( /\ Config.TagExclude = {"host"}
             /\ Config.TagInclude = {}
             /\ lastOp.metric.tags = {<<"host", "a">>, <<"region", "b">>} )
           => Buffered.tags = {<<"region", "b">>}

\* C15 witness (scenario C): TagExclude = {host}, a metric tagged host=a,
\* region=b was added and is buffered with region=b only.
C15_Witness ==
    /\ Called("AddMetric")
    /\ ~lastOp.rejected
    /\ Config.TagExclude = {"host"}
    /\ lastOp.metric.tags = {<<"host", "a">>, <<"region", "b">>}
    /\ sinkCalls = <<>>
    /\ metrics.buf[Len(metrics.buf)].tags = {<<"region", "b">>}
    /\ metrics.buf[Len(metrics.buf)].name = lastOp.metric.name

\* scenario B: N = 2, L = 4, the sink fails every write, m1 and m2 were added
\* (fail buffer [m1, m2], primary buffer empty), then Write was called
ScenarioB ==
    /\ Called("Write")
    /\ MetricBatchSize = 2
    /\ MetricBufferLimit = 4
    /\ produced = 2
    /\ pre.failMetrics.buf = <<FilteredMetric(Config, Metric(1)),
                               FilteredMetric(Config, Metric(2))>>
    /\ pre.metrics.buf = <<>>
    /\ AllRejected(sinkCalls)

\* C16 as stated: in scenario B the drain of Write consists of one batch
\* (nBatches = 1), that batch is empty, the sink is not invoked during the
\* Write, and Write returns success.
C16_AsStated ==
    ScenarioB =>
        /\ NBatches(Len(pre.failMetrics.buf), MetricBatchSize) = 1
        /\ sinkCalls = <<>>
        /\ ret = nil

\* C16 amended: in scenario B the drain of Write consists of two batches
\* (nBatches = 2/2 + 1 = 2): the first is [m1, m2], which the sink is offered
\* once, rejects, and which is re-queued; the second is empty (2 mod 2 = 0)
\* and causes no sink call; Write returns success and the fail buffer holds
\* [m1, m2] again.
C16_ScenarioBDrain ==
    ScenarioB =>
        /\ NBatches(Len(pre.failMetrics.buf), MetricBatchSize) = 2
        /\ Len(sinkCalls) = 1
        /\ sinkCalls[1].from = "failMetrics"
        /\ sinkCalls[1].metrics = pre.failMetrics.buf
        /\ sinkCalls[1].err # nil
        /\ ret = nil
        /\ failMetrics = pre.failMetrics
        /\ metrics = pre.metrics

\* C16 witness: scenario B happened, with one rejected resend.
C16_Witness ==
    /\ ScenarioB
    /\ Len(sinkCalls) = 1
    /\ sinkCalls[1].from = "failMetrics"
    /\ Len(sinkCalls[1].metrics) = 2
    /\ ret = nil

\* the sink invocations of the last call whose batch came from the fail buffer
DrainCalls == SelectSeq(sinkCalls, LAMBDA c : c.from = "failMetrics")

\* C17: a Write that starts with failLen metrics in the fail buffer hands the
\* sink, from the fail buffer, failLen \div N batches of exactly N metrics and
\* then, when failLen % N > 0, one batch of failLen % N metrics; together
\* they are the metrics present at the start, each once and in order, also
\* when an earlier batch failed and was re-queued; an empty last batch makes
\* no sink call, so the drain makes ceil(failLen / N) sink invocations.
C17_DrainGranularity ==
    Called("Write") =>
        LET failLen == Len(pre.failMetrics.buf)
            N == MetricBatchSize
            full == failLen \div N
            rest == failLen % N
        IN  /\ Offered(DrainCalls) = pre.failMetrics.buf
            /\ Len(DrainCalls) = full + (IF rest > 0 THEN 1 ELSE 0)
            /\ \A k \in 1..Len(DrainCalls) :
                  Len(DrainCalls[k].metrics) = (IF k <= full THEN N ELSE rest)
            /\ \A k \in 1..Len(sinkCalls) :
                  sinkCalls[k].from = "failMetrics" <=> k <= Len(DrainCalls)

\* C17 witness: a Write drained three metrics with N = 2; the batch of two
\* failed and was re-queued before the batch of one was extracted.
C17_Witness ==
    /\ Called("Write")
    /\ MetricBatchSize = 2
    /\ Len(pre.failMetrics.buf) = 3
    /\ Len(DrainCalls) = 2
    /\ DrainCalls[1].err # nil
    /\ Len(DrainCalls[2].metrics) = 1

\* the elements of a sequence
Range(s) == {s[k] : k \in 1..Len(s)}

NoDuplicates(s) == \A j, k \in 1..Len(s) : s[j] = s[k] => j = k

\* the accepted metrics that are neither buffered nor delivered
Evicted ==
    accepted \ (Range(metrics.buf) \cup Range(failMetrics.buf) \cup BagToSet(delivered))

\* C18: after every AddMetric and Write, whatever the sink answered, each
\* metric the filter accepted is in exactly one of: the primary buffer, the
\* fail buffer, the metrics the sink accepted, the evicted metrics, and the
\* evicted ones are as many as the two drop counters say; so
\* accepted = len(primary) + len(fail) + delivered + drops(primary) +
\* drops(fail), and the sink accepted no metric more than once.
C18_Accounting ==
    /\ Range(metrics.buf) \cup Range(failMetrics.buf) \cup BagToSet(delivered)
           \subseteq accepted
    /\ NoDuplicates(metrics.buf \o failMetrics.buf)
    /\ Range(metrics.buf \o failMetrics.buf) \cap BagToSet(delivered) = {}
    /\ \A m \in BagToSet(delivered) : CopiesIn(m, delivered) = 1
    /\ Cardinality(Evicted) = metrics.drops + failMetrics.drops
    /\ Cardinality(accepted) = Len(metrics.buf) + Len(failMetrics.buf)
                                 + BagCardinality(delivered)
                                 + metrics.drops + failMetrics.drops

\* C18 witness: metrics are in all the places at once: one waiting in the
\* primary buffer, some in the fail buffer, some delivered, some evicted.
C18_Witness ==
    /\ lastOp.name \in {"AddMetric", "Write"}
    /\ Len(metrics.buf) >= 1
    /\ Len(failMetrics.buf) >= 1
    /\ BagCardinality(delivered) >= 1
    /\ failMetrics.drops >= 1

\* C19: called one at a time, AddMetric and Write leave the primary buffer,
\* whose capacity is N, shorter than N: it is flushed when it reaches N.  So
\* it never evicts: its drop counter stays 0, and every evicted metric is
\* counted by the fail buffer's drop counter.
C19_PrimaryNeverEvicts ==
    /\ metrics.size = MetricBatchSize
    /\ Len(metrics.buf) < MetricBatchSize
    /\ metrics.drops = 0
    /\ Cardinality(Evicted) = failMetrics.drops

\* C19 witness: an AddMetric filled the primary buffer (of capacity N >= 2)
\* and flushed it, and metrics have been lost from the fail buffer.
C19_Witness ==
    /\ Called("AddMetric")
    /\ MetricBatchSize >= 2
    /\ Len(pre.metrics.buf) = MetricBatchSize - 1
    /\ Len(sinkCalls) = 1
    /\ metrics.buf = <<>>
    /\ metrics.drops = 0
    /\ failMetrics.drops >= 1

\* the growth of the fail buffer's drop counter by the re-queue of the k-th
\* sink invocation of the last call
DropsBy(k) == sinkCalls[k].after.drops - sinkCalls[k].before.drops

\* C20: in a Write the fail buffer's drop counter is the same before and
\* after every batch of the drain, re-queued or not (a re-queued batch goes
\* back whole), so it is the same when the drain ends as when Write started;
\* it can grow only by the re-queue of the failed batch taken from the
\* primary buffer, and then by at most
\* max(0, len(fail buffer) + len(batch) - L).
C20_DrainNeverEvicts ==
    Called("Write") =>
        /\ \A k \in 1..Len(sinkCalls) :
              /\ sinkCalls[k].before.drops =
                    (IF k = 1 THEN pre.failMetrics.drops ELSE sinkCalls[k - 1].after.drops)
              /\ sinkCalls[k].from = "failMetrics" =>
                    /\ DropsBy(k) = 0
                    /\ sinkCalls[k].err # nil =>
                          LastN(sinkCalls[k].after.buf, Len(sinkCalls[k].metrics))
                              = sinkCalls[k].metrics
              /\ sinkCalls[k].from = "metrics" =>
                    LET over == Len(sinkCalls[k].before.buf) + Len(sinkCalls[k].metrics)
                                  - MetricBufferLimit
                    IN  /\ DropsBy(k) >= 0
                        /\ DropsBy(k) <= (IF over > 0 THEN over ELSE 0)
                        /\ sinkCalls[k].err = nil => DropsBy(k) = 0
        /\ failMetrics.drops =
              (IF sinkCalls = <<>> THEN pre.failMetrics.drops
               ELSE sinkCalls[Len(sinkCalls)].after.drops)
        /\ FinalSend = {} => failMetrics.drops = pre.failMetrics.drops

\* C20 witness: a Write whose drain re-queued a failed batch onto the fail
\* buffer without loss, and whose failed final batch then evicted from it.
C20_Witness ==
    /\ Called("Write")
    /\ Len(sinkCalls) >= 2
    /\ sinkCalls[1].from = "failMetrics"
    /\ sinkCalls[1].err # nil
    /\ Len(sinkCalls[1].after.buf) = MetricBufferLimit
    /\ DropsBy(1) = 0
    /\ FinalSend # {}
    /\ failMetrics.drops > pre.failMetrics.drops

(***************************************************************************)
(* Properties of SpecConc.                                                 *)
(***************************************************************************)
\* goroutine g is inside a call, at a channel operation that cannot proceed
Waiting(g) ==
    \/ At(g, "add_evict") /\ Len(Buf(procs[g].buf).buf) = 0
    \/ At(g, "add_send") /\ Len(Buf(procs[g].buf).buf) = Buf(procs[g].buf).size
    \/ At(g, "batch_recv") /\ Len(Buf(procs[g].buf).buf) = 0

Quiescent == \A g \in Goroutines : At(g, "idle")

\* C9: no AddMetric or Write call blocks: whenever every goroutine is either
\* between two calls or waiting at a channel operation, none is waiting, so
\* every call in progress returns without another call having to be made (an
\* insertion never waits, a Batch never waits for later insertions).
C9_NoCallBlocks ==
    (\A g \in Goroutines : At(g, "idle") \/ Waiting(g)) => Quiescent

\* C10: evict-then-insert is atomic per inserted element: an element is
\* evicted only from a full buffer, an insertion evicts at most one element,
\* and between calls each buffer's drop counter equals the number of
\* elements evicted from it.
C10_EvictInsertAtomic ==
    /\ lastEviction.buf # "none" => lastEviction.len = lastEviction.size
    /\ \A g \in Goroutines : procs[g].ev <= 1
    /\ Quiescent => /\ metrics.drops = evictions["metrics"]
                    /\ failMetrics.drops = evictions["failMetrics"]

\* the parts of C10, each on its own
C10_EvictsOnlyWhenFull ==
    lastEviction.buf # "none" => lastEviction.len = lastEviction.size

C10_DropsCountEvictions ==
    Quiescent => /\ metrics.drops = evictions["metrics"]
                 /\ failMetrics.drops = evictions["failMetrics"]

C10_AtMostOneEvictionPerInsert == \A g \in Goroutines : procs[g].ev <= 1

\* C11: Batch is atomic with respect to concurrent Add and Batch calls: the
\* sequence a Batch(k) call returns is what the buffer's first min(len, k)
\* elements were at one single instant of the call.
C11_BatchAtomic ==
    \A g \in Goroutines :
        (procs[g].pc \in {"am_write", "w_send", "w_flush"} /\ procs[g].batch # <<>>)
            => procs[g].batch \in views[g]

====
